---- MODULE Spec2Model ----
(***************************************************************************)
(* Sliding-tile puzzle of src/components/SlidingPuzzle.tsx: the board      *)
(* functions (createSolved .. isSolved) as operators, and the component's  *)
(* React state with one action per event handler / effect.                 *)
(*                                                                         *)
(* JavaScript arrays are sequences here: the element at JS index i is      *)
(* arr[i + 1].  Indices passed between operators are JS (0-based) indices. *)
(***************************************************************************)
EXTENDS Integers, Sequences, FiniteSets, TLC

\* ------------------------------------------------------------------ bounds
\* longest random walk of shuffleSolvable that is enumerated
MaxSteps == 2
\* successful moves per game that are explored
MaxMoves == 2
\* how many times the clock advances by ClockStep
MaxAdvances == 1
\* cap of the repaint counter
MaxRedraw == 1
\* cap of the FileReader reads in flight
MaxReads == 1
\* Math.random() is one of 0/RandDen .. (RandDen-1)/RandDen
RandDen == 4
\* largest board size the pure functions are applied to
MaxFnSize == 5

\* ------------------------------------------------------- program constants
\* default of the parameter steps (shuffleSolvable)
DefaultSteps == 300
\* size={3} passed by src/app/page.tsx, and the default of the prop
defaultSize == 3
\* the options of the grid select
GridSizes == {3, 4, 5}
\* imageSrc passed by src/app/page.tsx
imageSrc == "/mina-raju.jpg"
\* milliseconds per second in the seconds computation
MsPerSecond == 1000

\* ------------------------------------------------------------------- clock
\* Date.now() is a positive number of milliseconds; it never goes backwards.
\* Between two events time passes to the next instant Epoch + k * ClockStep
\* (ClockAdvance); between the two readings one onTileClick makes it may
\* pass by HandlerGap.
Epoch == 1
ClockStep == 1500
HandlerGap == 1
ReadGaps == {0, HandlerGap}

\* --------------------------------------------------------- JS value helpers
\* the value of an optional field that is absent / undefined
Undefined == -1

\* truthiness of a number | undefined, as in `if (game.finishedAt)`
Truthy(x) == x # Undefined /\ x # 0

\* a ?? b
Coalesce(a, b) == IF a = Undefined THEN b ELSE a

\* arr.indexOf(v): first JS index holding v, or -1
indexOf(arr, v) ==
  IF \E k \in 1..Len(arr) : arr[k] = v
  THEN (CHOOSE k \in 1..Len(arr) :
          arr[k] = v /\ \A j \in 1..(k - 1) : arr[j] # v) - 1
  ELSE -1

\* arr.includes(v)
includes(arr, v) == \E k \in 1..Len(arr) : arr[k] = v

\* (faulty swap) the second assignment is lost: arr[a] = arr[b] only
swap_overwrite(arr, a, b) ==
  [k \in 1..Len(arr) |-> IF k = a + 1 THEN arr[b + 1] ELSE arr[k]]

\* [arr[a], arr[b]] = [arr[b], arr[a]] on JS indices a and b
swap(arr, a, b) ==
  [k \in 1..Len(arr) |->
     IF k = a + 1 THEN arr[b + 1]
     ELSE IF k = b + 1 THEN arr[a + 1]
     ELSE arr[k]]

\* ------------------------------------------------------------- board model
\* (faulty createSolved) the keys are not mapped to n + 1
createSolved_noMap(size) ==
  LET total == size * size
      keys  == [k \in 1..(total - 1) |-> k - 1]
  IN  Append(keys, 0)

createSolved(size) ==
  LET total == size * size
      keys  == [k \in 1..(total - 1) |-> k - 1]
  IN  Append([k \in 1..(total - 1) |-> keys[k] + 1], 0)

indexToRC(index, size) == [r |-> index \div size, c |-> index % size]

\* (faulty rcToIndex) row and column are taken the other way round
rcToIndex_transposed(r, c, size) == c * size + r

rcToIndex(r, c, size) == r * size + c

\* (faulty neighborsOf) the left neighbour is pushed without `c > 0`
neighborsOf_wrapLeft(emptyIndex, size) ==
  LET rc == indexToRC(emptyIndex, size)
      r  == rc.r
      c  == rc.c
      l1 == IF r > 0 THEN <<rcToIndex(r - 1, c, size)>> ELSE <<>>
      l2 == IF r < size - 1 THEN Append(l1, rcToIndex(r + 1, c, size)) ELSE l1
      l3 == Append(l2, rcToIndex(r, c - 1, size))
      l4 == IF c < size - 1 THEN Append(l3, rcToIndex(r, c + 1, size)) ELSE l3
  IN  l4

\* (faulty neighborsOf) the lower neighbour is pushed when `r < size`
neighborsOf_offByOne(emptyIndex, size) ==
  LET rc == indexToRC(emptyIndex, size)
      r  == rc.r
      c  == rc.c
      l1 == IF r > 0 THEN <<rcToIndex(r - 1, c, size)>> ELSE <<>>
      l2 == IF r < size THEN Append(l1, rcToIndex(r + 1, c, size)) ELSE l1
      l3 == IF c > 0 THEN Append(l2, rcToIndex(r, c - 1, size)) ELSE l2
      l4 == IF c < size - 1 THEN Append(l3, rcToIndex(r, c + 1, size)) ELSE l3
  IN  l4

neighborsOf(emptyIndex, size) ==
  LET rc == indexToRC(emptyIndex, size)
      r  == rc.r
      c  == rc.c
      l1 == IF r > 0 THEN <<rcToIndex(r - 1, c, size)>> ELSE <<>>
      l2 == IF r < size - 1 THEN Append(l1, rcToIndex(r + 1, c, size)) ELSE l1
      l3 == IF c > 0 THEN Append(l2, rcToIndex(r, c - 1, size)) ELSE l2
      l4 == IF c < size - 1 THEN Append(l3, rcToIndex(r, c + 1, size)) ELSE l3
  IN  l4

isSolved(tiles) ==
  IF \E i \in 0..(Len(tiles) - 2) : tiles[i + 1] # i + 1
  THEN FALSE
  ELSE tiles[Len(tiles)] = 0

\* Math.floor(Math.random() * len) when Math.random() = n / RandDen
randomIndex(n, len) == (n * len) \div RandDen

\* the loop of shuffleSolvable from iteration i on; rnd[i + 1] is the
\* Math.random() drawn in iteration i
RECURSIVE walk(_, _, _, _, _, _)
walk(tiles, empty, size, i, steps, rnd) ==
  IF i < steps
  THEN LET adj    == neighborsOf(empty, size)
           choice == adj[randomIndex(rnd[i + 1], Len(adj)) + 1]
       IN  walk(swap(tiles, choice, empty), choice, size, i + 1, steps, rnd)
  ELSE [tiles |-> tiles, empty |-> empty]

\* (faulty shuffleSolvable) the walk's end is returned as it is
shuffleSolvable_noExtra(size, steps, rnd) ==
  LET tiles0 == createSolved(size)
  IN  walk(tiles0, indexOf(tiles0, 0), size, 0, steps, rnd).tiles

shuffleSolvable(size, steps, rnd) ==
  LET tiles0 == createSolved(size)
      w      == walk(tiles0, indexOf(tiles0, 0), size, 0, steps, rnd)
  IN  IF isSolved(w.tiles)
      THEN LET adj    == neighborsOf(w.empty, size)
               choice == adj[1]
           IN  swap(w.tiles, choice, w.empty)
      ELSE w.tiles

\* The component always walks DefaultSteps steps.  Every board a walk of k
\* steps can end on is also an end of a walk of k + 2 steps (step there and
\* back first), so the walks of at most MaxSteps steps with the parity of
\* DefaultSteps end on boards a DefaultSteps-walk can end on.
WalkLengths == {k \in 1..MaxSteps : k % 2 = DefaultSteps % 2}

RandomDraws(k) == [1..k -> 0..(RandDen - 1)]

shuffleDefault ==
  [size \in GridSizes |->
     UNION {{shuffleSolvable(size, k, rnd) : rnd \in RandomDraws(k)} :
            k \in WalkLengths}]

\* ------------------------------------------------------------------- state
VARIABLES
  img,            \* useState img
  gridSize,       \* useState gridSize
  game,           \* useState game: GameState
  showNumbers,    \* useState showNumbers
  redraw,         \* the repaint counter (useState(0) of line 84)
  seconds,        \* the memoised value of useMemo (line 103)
  effectPending,  \* the size-change effect is scheduled and has not run yet
  reads,          \* files whose FileReader read is in flight
  now,            \* the clock read by Date.now()
  last,           \* the last event handled, with the game state it found
  fn,             \* a pure function's application: arguments and result
  queued          \* the state the size-change effect passed to setGame and
                  \* no render has processed yet: <<>> or <<state>>

vars == <<img, gridSize, game, showNumbers, redraw, seconds, effectPending,
          reads, now, last, fn, queued>>

\* files the file input can deliver; NoFile is e.target.files?.[0] undefined
Files == {"photo"}
NoFile == "none"

\* String(reader.result) after readAsDataURL(file): the file's data URL
dataURL(file) ==
  IF file = "photo" THEN "data:image/jpeg;base64,cGhvdG8=" ELSE "data:"

GameState(tiles, size, moves, startedAt, finishedAt) ==
  [tiles |-> tiles, size |-> size, moves |-> moves,
   startedAt |-> startedAt, finishedAt |-> finishedAt]

\* the object both the size-change effect and onShuffle pass to setGame
newGame(tiles, size) == GameState(tiles, size, 0, Undefined, Undefined)

\* the body of the useMemo callback
computeSeconds(g, t) ==
  IF ~Truthy(g.startedAt) THEN 0
  ELSE LET end == Coalesce(g.finishedAt, t)
       IN  (end - g.startedAt) \div MsPerSecond

\* (faulty useMemo) recomputed at every render, from Date.now() alone
useMemoSeconds_liveClock(cached, g, t) ==
  IF ~Truthy(g.startedAt) THEN 0 ELSE (t - g.startedAt) \div MsPerSecond

\* useMemo(..., []): the dependency list never changes, so a render after
\* the first one returns the cached value
useMemoSeconds(cached, g, t) == cached

\* the last event handled: the handler, its argument, and whether it found
\* the game Solved (finishedAt set).  A click that took an early return is
\* recorded without its index.
Event(op, arg, g) == [op |-> op, arg |-> arg, solved |-> Truthy(g.finishedAt)]

FnIdle == [op |-> "none"]

Init ==
  /\ img = imageSrc
  /\ gridSize = defaultSize
  /\ \E tiles \in shuffleDefault[defaultSize] :
       /\ game = GameState(tiles, defaultSize, 0, Undefined, Undefined)
       /\ last = Event("mount", defaultSize, game)
  /\ showNumbers = FALSE
  /\ redraw = 0
  /\ now = Epoch
  /\ seconds = computeSeconds(game, now)
  /\ effectPending = TRUE
  /\ reads = {}
  /\ fn = FnIdle
  /\ queued = <<>>

\* ----------------------------------------------------------------- actions
\* what a render (after a state setter ran) does besides showing the
\* state: the memo
Render(g, t) == seconds' = useMemoSeconds(seconds, g, t)

\* (faulty variants of onTileClick) their common shape: solvedGuard and
\* adjacency say which early returns are kept, started and finished are
\* the timestamps
clickAs(g, index, solvedGuard, inAdj, started, finished) ==
  IF solvedGuard /\ Truthy(g.finishedAt) THEN g
  ELSE IF ~inAdj THEN g
  ELSE [g EXCEPT !.tiles = swap(g.tiles, index, indexOf(g.tiles, 0)),
                 !.moves = g.moves + 1,
                 !.startedAt = started,
                 !.finishedAt = finished]

clickSolves(g, index) == isSolved(swap(g.tiles, index, indexOf(g.tiles, 0)))

clickAdj(g, index) ==
  includes(neighborsOf(indexOf(g.tiles, 0), g.size), index)

\* any other cell of the board is accepted, adjacent or not
onTileClick_anyCell(g, index, t1, t2) ==
  LET ok == index \in 0..(Len(g.tiles) - 1) /\ index # indexOf(g.tiles, 0)
  IN  clickAs(g, index, TRUE, ok, Coalesce(g.startedAt, t1),
              IF ok /\ clickSolves(g, index) THEN t2 ELSE Undefined)

\* the `if (game.finishedAt) return` is missing
onTileClick_noSolvedGuard(g, index, t1, t2) ==
  LET ok == clickAdj(g, index)
  IN  clickAs(g, index, FALSE, ok, Coalesce(g.startedAt, t1),
              IF ok /\ clickSolves(g, index) THEN t2 ELSE Undefined)

\* startedAt is Date.now() on every move
onTileClick_restartsClock(g, index, t1, t2) ==
  LET ok == clickAdj(g, index)
  IN  clickAs(g, index, TRUE, ok, t1,
              IF ok /\ clickSolves(g, index) THEN t2 ELSE Undefined)

\* startedAt is copied from the old state, never started
onTileClick_noStart(g, index, t1, t2) ==
  LET ok == clickAdj(g, index)
  IN  clickAs(g, index, TRUE, ok, g.startedAt,
              IF ok /\ clickSolves(g, index) THEN t2 ELSE Undefined)

\* finishedAt is never set
onTileClick_noFinish(g, index, t1, t2) ==
  clickAs(g, index, TRUE, clickAdj(g, index), Coalesce(g.startedAt, t1),
          Undefined)

\* the state setGame installs after onTileClick(index) found state g and
\* read t1 and then t2 from Date.now(); g itself on an early return
onTileClick(g, index, t1, t2) ==
  IF Truthy(g.finishedAt) THEN g
  ELSE LET empty == indexOf(g.tiles, 0)
           adj   == neighborsOf(empty, g.size)
       IN  IF ~includes(adj, index) THEN g
           ELSE LET next       == swap(g.tiles, index, empty)
                    startedAt  == Coalesce(g.startedAt, t1)
                    moves      == g.moves + 1
                    finishedAt == IF isSolved(next) THEN t2 ELSE Undefined
                IN  [g EXCEPT !.tiles = next, !.moves = moves,
                              !.startedAt = startedAt,
                              !.finishedAt = finishedAt]

\* the indices a click can carry: every cell, and one index off each end
ClickIndices(size) == -1..(size * size)

\* d is the time between the handler's two readings of Date.now()
TileClickAt(index) ==
  /\ ~effectPending
  /\ UNCHANGED <<img, gridSize, showNumbers, redraw, effectPending, reads, fn,
                 queued>>
  /\ \E d \in ReadGaps :
       LET t1 == now
           t2 == t1 + d
       IN  /\ (t2 - Epoch) % ClockStep <= HandlerGap
           /\ now' = t2
           /\ game' = onTileClick(game, index, t1, t2)
           /\ game' # game => game.moves < MaxMoves
           /\ ~Truthy(game'.finishedAt) => d = 0
           /\ last' = IF game' # game
                      THEN Event("onTileClick", index, game)
                      ELSE Event("onTileClick:return", 0, game)
           /\ IF game' # game THEN Render(game', now') ELSE seconds' = seconds

TileClick == \E index \in ClickIndices(game.size) : TileClickAt(index)

\* (faulty onShuffle) startedAt is carried over from the old state
onShuffle_keepsStart(g, tiles) ==
  [newGame(tiles, g.size) EXCEPT !.startedAt = g.startedAt]

\* (faulty onShuffle) finishedAt is carried over from the old state
onShuffle_keepsFinished(g, tiles) ==
  [newGame(tiles, g.size) EXCEPT !.finishedAt = g.finishedAt]

\* (faulty onShuffle) only the board is replaced
onShuffle_keepsMoves(g, tiles) == [g EXCEPT !.tiles = tiles]

onShuffle(g, tiles) == newGame(tiles, g.size)

Shuffle ==
  /\ ~effectPending
  /\ \E tiles \in shuffleDefault[game.size] :
       /\ game' = onShuffle(game, tiles)
       /\ last' = Event("onShuffle", game.size, game)
       /\ Render(game', now)
  /\ UNCHANGED <<img, gridSize, showNumbers, redraw, effectPending, reads,
                 now, fn, queued>>

\* String(n), the value of an option, as its decimal digits; and parseInt
digits(n) == IF n < 10 THEN <<n>> ELSE <<n \div 10, n % 10>>

RECURSIVE parseInt10(_)
parseInt10(s) ==
  IF s = <<>> THEN 0
  ELSE parseInt10(SubSeq(s, 1, Len(s) - 1)) * 10 + s[Len(s)]

\* (faulty SelectGridSize) the effect's dependency list does not hold
\* gridSize, so the render schedules no effect
SelectGridSize_noEffect ==
  /\ ~effectPending
  /\ \E n \in GridSizes \ {gridSize} :
       /\ gridSize' = parseInt10(digits(n))
       /\ last' = Event("setGridSize", n, game)
       /\ Render(game, now)
  /\ effectPending' = FALSE
  /\ UNCHANGED <<img, game, showNumbers, redraw, reads, now, fn, queued>>

\* the select's onChange: fires when another option is chosen; the render
\* it causes schedules the size-change effect (gridSize changed)
SelectGridSize ==
  /\ ~effectPending
  /\ \E n \in GridSizes \ {gridSize} :
       /\ gridSize' = parseInt10(digits(n))
       /\ last' = Event("setGridSize", n, game)
       /\ Render(game, now)
  /\ effectPending' = TRUE
  /\ UNCHANGED <<img, game, showNumbers, redraw, reads, now, fn, queued>>

\* the size-change effect: runs after mount and after a render with a new
\* gridSize, before any other handler or render; here together with the
\* render of the state it passes to setGame
SizeChangeEffect ==
  /\ effectPending
  /\ \E tiles \in shuffleDefault[gridSize] :
       game' = newGame(tiles, gridSize)
  /\ effectPending' = FALSE
  /\ last' = Event("sizeEffect", gridSize, game)
  /\ Render(game', now)
  /\ UNCHANGED <<img, gridSize, showNumbers, redraw, reads, now, fn, queued>>

\* (faulty Tick) the interval callback also counts a move
Tick_countsMove ==
  /\ ~effectPending
  /\ redraw < MaxRedraw
  /\ redraw' = redraw + 1
  /\ game' = [game EXCEPT !.moves = game.moves + 1]
  /\ last' = Event("tick", redraw, game)
  /\ Render(game', now)
  /\ UNCHANGED <<img, gridSize, showNumbers, effectPending, reads, now, fn,
                 queued>>

\* the interval callback: redraw((x) => x + 1)
Tick ==
  /\ ~effectPending
  /\ redraw < MaxRedraw
  /\ redraw' = redraw + 1
  /\ last' = Event("tick", redraw, game)
  /\ Render(game, now)
  /\ UNCHANGED <<img, gridSize, game, showNumbers, effectPending, reads,
                 now, fn, queued>>

\* (faulty checkbox handler) the toggle also clears the move counter
ToggleShowNumbers_resetsMoves ==
  /\ ~effectPending
  /\ showNumbers' = ~showNumbers
  /\ game' = [game EXCEPT !.moves = 0]
  /\ last' = Event("setShowNumbers", 0, game)
  /\ Render(game', now)
  /\ UNCHANGED <<img, gridSize, redraw, effectPending, reads, now, fn,
                 queued>>

\* the checkbox's onChange: setShowNumbers(e.target.checked)
ToggleShowNumbers ==
  /\ ~effectPending
  /\ showNumbers' = ~showNumbers
  /\ last' = Event("setShowNumbers", 0, game)
  /\ Render(game, now)
  /\ UNCHANGED <<img, gridSize, game, redraw, effectPending, reads, now, fn,
                 queued>>

handleUpload ==
  /\ ~effectPending
  /\ \E file \in Files \cup {NoFile} :
       /\ IF file = NoFile
          THEN reads' = reads
          ELSE /\ Cardinality(reads) < MaxReads
               /\ file \notin reads
               /\ reads' = reads \cup {file}
       /\ last' = Event("handleUpload", IF file = NoFile THEN 0 ELSE 1,
                        game)
  /\ UNCHANGED <<img, gridSize, game, showNumbers, redraw, seconds,
                 effectPending, now, fn, queued>>

\* reader.onload: setImg(String(reader.result))
ReaderOnload ==
  /\ ~effectPending
  /\ \E file \in reads :
       /\ img' = dataURL(file)
       /\ reads' = reads \ {file}
  /\ last' = Event("onload", 0, game)
  /\ Render(game, now)
  /\ UNCHANGED <<gridSize, game, showNumbers, redraw, effectPending, now, fn,
                 queued>>

\* time passes between two events
ClockAdvance ==
  LET k == (now - Epoch) \div ClockStep
  IN  /\ k < MaxAdvances
      /\ now' = Epoch + (k + 1) * ClockStep
      /\ UNCHANGED <<img, gridSize, game, showNumbers, redraw, seconds,
                     effectPending, reads, last, fn, queued>>

\* The controller: the game, the grid size, the timer and the clock.
Next ==
  \/ ClockAdvance
  \/ TileClick
  \/ Shuffle
  \/ SelectGridSize
  \/ SizeChangeEffect
  \/ Tick

Spec == Init /\ [][Next]_vars

\* The handlers of the whole component, the presentation handlers
\* included, at one instant of the clock: the presentation handlers read
\* no clock.
NextView ==
  \/ TileClick
  \/ Shuffle
  \/ SelectGridSize
  \/ SizeChangeEffect
  \/ Tick
  \/ ToggleShowNumbers
  \/ handleUpload
  \/ ReaderOnload

SpecView == Init /\ [][NextView]_vars

\* ---------------------------------- events before the effect's update renders
\* The size-change effect only queues its state: setGame(...) inside an
\* effect is rendered later, and the browser may deliver an event before
\* that render.  The handler of such an event belongs to the last render:
\* its `game` is the old state, while the g of its updater is the state
\* the queue holds.

\* onTileClick(index) of a render whose game is `read`, its updater
\* (g) => ({...g, tiles: next, moves, startedAt, finishedAt}) applied to g;
\* g itself on an early return (setGame is not called)
onTileClickOn(read, g, index, t1, t2) ==
  LET set == onTileClick(read, index, t1, t2)
  IN  IF set = read THEN g
      ELSE [g EXCEPT !.tiles = set.tiles, !.moves = set.moves,
                     !.startedAt = set.startedAt,
                     !.finishedAt = set.finishedAt]

\* the effect's body: setGame({tiles: shuffleSolvable(gridSize), ...})
EffectSetGame ==
  /\ effectPending
  /\ queued = <<>>
  /\ \E tiles \in shuffleDefault[gridSize] :
       queued' = <<newGame(tiles, gridSize)>>
  /\ effectPending' = FALSE
  /\ last' = Event("effect:setGame", gridSize, game)
  /\ UNCHANGED <<img, gridSize, game, showNumbers, redraw, seconds, reads,
                 now, fn>>

\* the render that processes the queued state
RenderQueued ==
  /\ queued # <<>>
  /\ game' = queued[1]
  /\ queued' = <<>>
  /\ last' = Event("sizeEffect", gridSize, game)
  /\ Render(game', now)
  /\ UNCHANGED <<img, gridSize, showNumbers, redraw, effectPending, reads,
                 now, fn>>

\* a click on a button of the last render, handled before the queued state
\* is rendered; the next render processes the queue and then the updater
ClickBeforeRender ==
  /\ queued # <<>>
  /\ \E index \in 0..(Len(game.tiles) - 1) :
       \E d \in ReadGaps :
          LET t1 == now
              t2 == t1 + d
              set == onTileClick(game, index, t1, t2)
          IN  /\ (t2 - Epoch) % ClockStep <= HandlerGap
              /\ now' = t2
              /\ set # game
              /\ game.moves < MaxMoves
              /\ ~Truthy(set.finishedAt) => d = 0
              /\ game' = onTileClickOn(game, queued[1], index, t1, t2)
              /\ last' = Event("onTileClick", index, game)
              /\ Render(game', now')
  /\ queued' = <<>>
  /\ UNCHANGED <<img, gridSize, showNumbers, redraw, effectPending, reads, fn>>

\* onShuffle handled before the queued state is rendered: game.size is the
\* old state's, and its setGame(...) is processed after the queued one
ShuffleBeforeRender ==
  /\ queued # <<>>
  /\ \E tiles \in shuffleDefault[game.size] :
       /\ game' = onShuffle(game, tiles)
       /\ last' = Event("onShuffle", game.size, game)
       /\ Render(game', now)
  /\ queued' = <<>>
  /\ UNCHANGED <<img, gridSize, showNumbers, redraw, effectPending, reads,
                 now, fn>>

\* every update is rendered, and the board has as many cells as its size
\* says: the handlers are followed from such states only
Settled == queued = <<>> /\ Len(game.tiles) = game.size * game.size

NextAsync ==
  \/ Settled /\ ClockAdvance
  \/ Settled /\ TileClick
  \/ Settled /\ Shuffle
  \/ Settled /\ SelectGridSize
  \/ Settled /\ Tick
  \/ EffectSetGame
  \/ RenderQueued
  \/ ClickBeforeRender
  \/ ShuffleBeforeRender

SpecAsync == Init /\ [][NextAsync]_vars

\* ------------------------------------------- the board functions on their own
\* sizes the functions are applied to
FnSizes == 2..MaxFnSize

\* the component as mounted by page.tsx, before its effects ran
Mounted ==
  /\ img = imageSrc
  /\ gridSize = defaultSize
  /\ game = GameState(shuffleSolvable(defaultSize, 1, <<0>>), defaultSize, 0,
                      Undefined, Undefined)
  /\ last = Event("mount", defaultSize, game)
  /\ showNumbers = FALSE
  /\ redraw = 0
  /\ now = Epoch
  /\ seconds = computeSeconds(game, now)
  /\ effectPending = TRUE
  /\ reads = {}
  /\ queued = <<>>

\* a call shuffleSolvable(size, steps) with the Math.random() values rnd
ShuffleCalls ==
  UNION {{[op |-> "shuffleSolvable", size |-> size, steps |-> steps,
           rnd |-> rnd, done |-> FALSE, result |-> <<>>] :
          rnd \in RandomDraws(steps)} :
         <<size, steps>> \in FnSizes \X (1..MaxSteps)}

\* a call neighborsOf(emptyIndex, size) on a cell of the board
NeighborCalls ==
  UNION {{[op |-> "neighborsOf", size |-> size, emptyIndex |-> e,
           done |-> FALSE, result |-> <<>>] :
          e \in 0..(size * size - 1)} :
         size \in FnSizes}

\* a call createSolved(size), followed by isSolved on its result
SolvedCalls ==
  {[op |-> "createSolved", size |-> size, done |-> FALSE, result |-> <<>>,
    solved |-> FALSE] :
   size \in FnSizes}

\* sizes of the index conversions: a board of one cell included
RCSizes == 1..MaxFnSize

\* a call rcToIndex(r, c, size), followed by indexToRC on its result
RcToIndexCalls ==
  UNION {{[op |-> "rcToIndex", size |-> size, r |-> r, c |-> c,
           done |-> FALSE, result |-> 0, back |-> [r |-> 0, c |-> 0]] :
          <<r, c>> \in (0..(size - 1)) \X (0..(size - 1))} :
         size \in RCSizes}

\* a call indexToRC(index, size), followed by rcToIndex on its result
IndexToRCCalls ==
  UNION {{[op |-> "indexToRC", size |-> size, index |-> i,
           done |-> FALSE, result |-> [r |-> 0, c |-> 0], back |-> 0] :
          i \in 0..(size * size - 1)} :
         size \in RCSizes}

InitFn ==
  /\ Mounted
  /\ fn \in ShuffleCalls \cup NeighborCalls \cup SolvedCalls
            \cup RcToIndexCalls \cup IndexToRCCalls

UnchangedComponent ==
  UNCHANGED <<img, gridSize, game, showNumbers, redraw, seconds,
              effectPending, reads, now, last, queued>>

CallShuffle ==
  /\ fn.op = "shuffleSolvable"
  /\ ~fn.done
  /\ fn' = [fn EXCEPT !.done = TRUE,
                      !.result = shuffleSolvable(fn.size, fn.steps, fn.rnd)]
  /\ UnchangedComponent

CallNeighborsOf ==
  /\ fn.op = "neighborsOf"
  /\ ~fn.done
  /\ fn' = [fn EXCEPT !.done = TRUE,
                      !.result = neighborsOf(fn.emptyIndex, fn.size)]
  /\ UnchangedComponent

CallCreateSolved ==
  /\ fn.op = "createSolved"
  /\ ~fn.done
  /\ LET tiles == createSolved(fn.size)
     IN  fn' = [fn EXCEPT !.done = TRUE, !.result = tiles,
                          !.solved = isSolved(tiles)]
  /\ UnchangedComponent

CallRcToIndex ==
  /\ fn.op = "rcToIndex"
  /\ ~fn.done
  /\ LET index == rcToIndex(fn.r, fn.c, fn.size)
     IN  fn' = [fn EXCEPT !.done = TRUE, !.result = index,
                          !.back = indexToRC(index, fn.size)]
  /\ UnchangedComponent

CallIndexToRC ==
  /\ fn.op = "indexToRC"
  /\ ~fn.done
  /\ LET rc == indexToRC(fn.index, fn.size)
     IN  fn' = [fn EXCEPT !.done = TRUE, !.result = rc,
                          !.back = rcToIndex(rc.r, rc.c, fn.size)]
  /\ UnchangedComponent

NextFn ==
  \/ CallShuffle
  \/ CallNeighborsOf
  \/ CallCreateSolved
  \/ CallRcToIndex
  \/ CallIndexToRC

SpecFn == InitFn /\ [][NextFn]_vars

\* ------------------------------------------------------------------ claims
\* The notions the claims are stated in, defined apart from the code's
\* functions.
Cells(size) == 0..(size * size - 1)

\* the solved board [1, 2, ..., size*size - 1, 0]
Target(size) == [k \in 1..(size * size) |-> k % (size * size)]

\* a permutation of 0..size*size-1: size*size cells that hold every one of
\* the size*size values, hence each exactly once
IsBoard(tiles, size) ==
  /\ Len(tiles) = size * size
  /\ \A v \in Cells(size) : \E k \in 1..Len(tiles) : tiles[k] = v

Abs(x) == IF x < 0 THEN -x ELSE x

Manhattan(i, j, size) ==
  Abs((i \div size) - (j \div size)) + Abs((i % size) - (j % size))

\* cells i and j of the board are orthogonal neighbours
Adjacent(i, j, size) ==
  /\ i \in Cells(size)
  /\ j \in Cells(size)
  /\ Manhattan(i, j, size) = 1

EmptyCell(tiles) == CHOOSE e \in 0..(Len(tiles) - 1) : tiles[e + 1] = 0

\* the board after the tile in cell j has slid into the empty cell
Slide(tiles, j) ==
  LET e == EmptyCell(tiles)
  IN  [k \in 1..Len(tiles) |->
         IF k = e + 1 THEN tiles[j + 1]
         ELSE IF k = j + 1 THEN 0
         ELSE tiles[k]]

\* the cells next to cell e: an orthogonal neighbour is 1 or size away
NextTo(e, size) ==
  {i \in {e - size, e - 1, e + 1, e + size} : Adjacent(i, e, size)}

\* the boards one legal move away
LegalMoves(tiles, size) ==
  {Slide(tiles, j) : j \in NextTo(EmptyCell(tiles), size)}

\* the boards at most d legal moves away from a board of S
RECURSIVE Within(_, _, _)
Within(S, size, d) ==
  IF d = 0 THEN S
  ELSE Within(S \cup UNION {LegalMoves(b, size) : b \in S}, size, d - 1)

\* a walk makes at most MaxSteps moves and the shuffle one more; a game
\* adds at most MaxMoves
FreshWithin ==
  [size \in GridSizes |-> Within({Target(size)}, size, MaxSteps + 1)]

SolvableWithin ==
  [size \in GridSizes |->
     Within({Target(size)}, size, MaxSteps + 1 + MaxMoves)]

IsSet(x) == x # Undefined

C2_FinishedIffSolved ==
  IsSet(game.finishedAt) <=> game.tiles = Target(game.size)

C2_Witness ==
  /\ IsSet(game.finishedAt)
  /\ game.tiles = Target(game.size)
  /\ game.moves = 1

\* C3: for size >= 2, steps >= 1 and any random choices, the board that
\* shuffleSolvable returns is not the solved board; when the walk ends on
\* the solved board the result is one legal move away from it.
C3_WalkEnd ==
  walk(createSolved(fn.size), fn.size * fn.size - 1, fn.size, 0, fn.steps,
       fn.rnd).tiles

C3_ShuffleUnsolved ==
  (fn.op = "shuffleSolvable" /\ fn.done) =>
     /\ fn.result # Target(fn.size)
     /\ C3_WalkEnd = Target(fn.size) =>
          fn.result \in LegalMoves(Target(fn.size), fn.size)

C3_Witness ==
  /\ fn.op = "shuffleSolvable"
  /\ fn.done
  /\ fn.steps = 2
  /\ C3_WalkEnd = Target(fn.size)

C5_IgnoredClick ==
  ~IsSet(game.finishedAt) =>
     \A i \in ClickIndices(game.size)
               \ NextTo(EmptyCell(game.tiles), game.size) :
        \A d \in ReadGaps : onTileClick(game, i, now, now + d) = game

C5_Witness ==
  /\ last.op = "onTileClick:return"
  /\ ~last.solved
  /\ game.moves = 1

\* C6: once finishedAt is set no click changes the game, and the game
\* changes only by a shuffle or by the size-change effect.
C6_SolvedTerminal ==
  [][IsSet(game.finishedAt) =>
       /\ \A i \in ClickIndices(game.size) : TileClickAt(i) => game' = game
       /\ game' # game => (Shuffle \/ SizeChangeEffect)]_vars

C6_Witness ==
  /\ last.op = "onTileClick:return"
  /\ last.solved
  /\ IsSet(game.finishedAt)

C8_Reset ==
  last.op \in {"mount", "onShuffle", "sizeEffect"} =>
     /\ game.moves = 0
     /\ ~IsSet(game.startedAt)
     /\ ~IsSet(game.finishedAt)
     /\ game.size = last.arg
     /\ last.op = "sizeEffect" => game.size = gridSize
     /\ last.op = "mount" => game.size = defaultSize
     /\ IsBoard(game.tiles, game.size)
     /\ game.tiles # Target(game.size)
     /\ game.tiles \in FreshWithin[game.size]

C8_Witness ==
  /\ last.op = "onShuffle"
  /\ last.solved
  /\ game.size = 4

\* C9: at every render the seconds shown are 0 when startedAt is unset and
\* floor((min(finishedAt, now) - startedAt) / 1000) otherwise, finishedAt
\* counting as now when unset.
Min(a, b) == IF a < b THEN a ELSE b

ElapsedSeconds(g, t) ==
  IF ~IsSet(g.startedAt) THEN 0
  ELSE (Min(IF IsSet(g.finishedAt) THEN g.finishedAt ELSE t, t)
        - g.startedAt) \div 1000

\* a state setter ran in this step, so the component renders
Rendering ==
  \/ game' # game
  \/ redraw' # redraw
  \/ showNumbers' # showNumbers
  \/ img' # img
  \/ gridSize' # gridSize

C9_SecondsShown ==
  [][Rendering => seconds' = ElapsedSeconds(game', now')]_vars

\* C10: when finishedAt is set, startedAt is set too and is not later.
C10_FinishedAfterStarted ==
  IsSet(game.finishedAt) =>
     /\ IsSet(game.startedAt)
     /\ game.finishedAt >= game.startedAt

C10_Witness ==
  /\ IsSet(game.finishedAt)
  /\ IsSet(game.startedAt)
  /\ game.finishedAt > game.startedAt

\* C11: a step of the timer (the repaint counter changes) adds 1 to the
\* counter and leaves game (tiles, size, moves, startedAt, finishedAt),
\* gridSize, img and showNumbers as they are, whatever the user did before.
C11_TickReadOnly ==
  [][redraw' # redraw =>
       /\ redraw' = redraw + 1
       /\ game' = game
       /\ gridSize' = gridSize
       /\ img' = img
       /\ showNumbers' = showNumbers]_vars

C11_Witness ==
  /\ last.op = "tick"
  /\ game.moves = 1
  /\ showNumbers
  /\ img # imageSrc

\* C12: for size >= 2 and a cell e of the board, neighborsOf(e, size) lists
\* the cells of the board at Manhattan distance 1 from e, each once: 2 of
\* them when e is a corner, 3 when e is on an edge but is no corner, 4 when
\* e is interior.
OnBorder(x, size) == x = 0 \/ x = size - 1

NeighbourCount(e, size) ==
  4 - (IF OnBorder(e \div size, size) THEN 1 ELSE 0)
    - (IF OnBorder(e % size, size) THEN 1 ELSE 0)

C12_Neighbors ==
  (fn.op = "neighborsOf" /\ fn.done) =>
     /\ {fn.result[k] : k \in 1..Len(fn.result)}
          = {j \in Cells(fn.size) : Manhattan(j, fn.emptyIndex, fn.size) = 1}
     /\ \A j, k \in 1..Len(fn.result) : fn.result[j] = fn.result[k] => j = k
     /\ Len(fn.result) = NeighbourCount(fn.emptyIndex, fn.size)

C12_Witness ==
  /\ fn.op = "neighborsOf"
  /\ fn.done
  /\ fn.size = 4
  /\ fn.emptyIndex = 7
  /\ Len(fn.result) = 3

\* C13: for size >= 2, createSolved(size) is [1, 2, ..., size*size - 1, 0],
\* a permutation of 0..size*size-1, and isSolved of it is true.
C13_CreateSolved ==
  (fn.op = "createSolved" /\ fn.done) =>
     /\ fn.result = Target(fn.size)
     /\ IsBoard(fn.result, fn.size)
     /\ \A j, k \in 1..Len(fn.result) : fn.result[j] = fn.result[k] => j = k
     /\ fn.solved

C13_Witness ==
  /\ fn.op = "createSolved"
  /\ fn.done
  /\ fn.size = 2
  /\ fn.result = <<1, 2, 3, 0>>

\* C14: for size >= 1, r and c in 0..size-1, indexToRC(rcToIndex(r, c,
\* size), size) is (r, c); and for i in 0..size*size-1, rcToIndex of
\* indexToRC(i, size) is i.
C14_RoundTrip ==
  /\ (fn.op = "rcToIndex" /\ fn.done) =>
        /\ fn.back.r = fn.r
        /\ fn.back.c = fn.c
  /\ (fn.op = "indexToRC" /\ fn.done) => fn.back = fn.index

C14_Witness ==
  /\ fn.op = "rcToIndex"
  /\ fn.done
  /\ fn.size = 5
  /\ fn.r = 1
  /\ fn.c = 3
  /\ fn.result = 8

\* C15: a step in which finishedAt becomes set, or in which the board
\* becomes the solved board, is a click on a tile next to the empty cell
\* of a Playing state, and its board is the solved board; the states left
\* by mount, onShuffle and the size-change effect have finishedAt unset and
\* a board that is not solved.
Unsolved(g) == ~IsSet(g.finishedAt) /\ g.tiles # Target(g.size)

C15_SolvedOnlyByMove ==
  [][/\ (\/ ~IsSet(game.finishedAt) /\ IsSet(game'.finishedAt)
         \/ game.tiles # Target(game.size)
              /\ game'.tiles = Target(game'.size)) =>
          /\ ~IsSet(game.finishedAt)
          /\ \E i \in NextTo(EmptyCell(game.tiles), game.size) :
               TileClickAt(i)
          /\ game'.tiles = Target(game.size)
          /\ IsSet(game'.finishedAt)
     /\ last.op = "mount" => Unsolved(game)
     /\ last'.op \in {"onShuffle", "sizeEffect"} => Unsolved(game')]_vars

C15_Witness ==
  /\ last.op = "onTileClick"
  /\ ~last.solved
  /\ IsSet(game.finishedAt)
  /\ game.size = 4

\* C16: a click whose update is applied found in `game` the state its
\* updater is applied to, so the new state is the handler's result on the
\* state it read; moves counts the clicks applied since the last reset
\* (game changes only by a reset, which leaves moves 0, or by a click,
\* which adds one); and the board always has size*size cells.
UpdaterBase == IF queued = <<>> THEN game ELSE queued[1]

C16_Atomic ==
  [][/\ game' # game =>
          \/ /\ last'.op = "onTileClick"
             /\ UpdaterBase = game
             /\ \E i \in Cells(game.size) :
                  \E d \in ReadGaps :
                     game' = onTileClick(game, i, now, now + d)
             /\ game'.moves = game.moves + 1
          \/ /\ last'.op \in {"onShuffle", "sizeEffect"}
             /\ game'.moves = 0
     /\ Len(game'.tiles) = game'.size * game'.size]_vars

C18_StartedIffMoved ==
  [][/\ IsSet(game.startedAt) <=> game.moves > 0
     /\ IsSet(game'.startedAt) <=> game'.moves > 0
     /\ (IsSet(game.startedAt) /\ game'.startedAt # game.startedAt) =>
          /\ Shuffle \/ SizeChangeEffect
          /\ ~IsSet(game'.startedAt)
          /\ game'.moves = 0]_vars

C18_Witness ==
  /\ last.op = "onTileClick"
  /\ game.moves = 2
  /\ IsSet(game.startedAt)
  /\ game.startedAt < now
  /\ ~IsSet(game.finishedAt)

\* C19: from a Solved state a step that leaves the game as it is (a timer
\* tick, an ignored click, time passing) leaves the seconds shown as they
\* are, and a step that changes the game is a shuffle or the size-change
\* effect, after which the seconds shown are 0.
C19_FrozenWhenSolved ==
  [][IsSet(game.finishedAt) =>
       /\ game' = game => seconds' = seconds
       /\ game' # game =>
            /\ Shuffle \/ SizeChangeEffect
            /\ ~IsSet(game'.finishedAt)
            /\ seconds' = 0]_vars

C19_Witness ==
  /\ last.op = "tick"
  /\ last.solved
  /\ IsSet(game.finishedAt)
  /\ now >= game.finishedAt + MsPerSecond

\* C20: a step of the checkbox handler, of handleUpload or of the reader's
\* onload leaves game (tiles, size, moves, startedAt, finishedAt) as it is;
\* handleUpload without a file also leaves img as it is and starts no read.
C20_PresentationOnly ==
  [][/\ (\/ showNumbers' # showNumbers
         \/ img' # img
         \/ reads' # reads
         \/ last'.op \in {"setShowNumbers", "handleUpload", "onload"}) =>
          game' = game
     /\ (last'.op = "handleUpload" /\ last'.arg = 0) =>
          /\ img' = img
          /\ reads' = reads]_vars

C20_Witness ==
  /\ last.op = "handleUpload"
  /\ last.arg = 0
  /\ game.moves = 1
  /\ img # imageSrc

====
